---- MODULE Spec2Model ----
(***************************************************************************)
(* A model of WebhookManager (src/src/webhook.ts): the debounce gate, the  *)
(* pattern interpreter, the body and header templater and the delivery     *)
(* engine with its retry loop.                                             *)
(*                                                                         *)
(* Strings are TLA+ strings; a character is a string of length 1.          *)
(* Time is counted in milliseconds by the remaining time of every live     *)
(* timer (the debounce timer and the retry waits); a timer that is due     *)
(* fires before time advances further.                                     *)
(***************************************************************************)
EXTENDS Integers, Sequences, FiniteSets, TLC

VARIABLES
  config,             \* the MiddlewareConfig given to the constructor
  cachePurgeTimeout,  \* the timer handle field: 0 is null, else a timer id
  timers,             \* live (scheduled, not fired, not cleared) debounce timers
  runs,               \* delivery sequences (triggerWebhook runs), by timer id
  calls,              \* history: one record per debouncePurgeCache call
  uncaught,           \* number of errors that escaped a timer callback
  twin,               \* the delivery sequences of a second manager, given the
                      \* same calls, clock and responses, whose configuration
                      \* differs in the debug flag only
  input,              \* argument of a pure function under test
  output              \* its result

vars ==
  <<config, cachePurgeTimeout, timers, runs, calls, uncaught, twin, input, output>>

(***************************************************************************)
(* Bounds of the model.                                                    *)
(***************************************************************************)
MaxCalls == 2
MaxRetryCount == 3
MaxPatLen == 3
TicksPerWindow == 2

----------------------------------------------------------------------------
(***************************************************************************)
(* String primitives of the JavaScript runtime.                            *)
(***************************************************************************)
Min(a, b) == IF a <= b THEN a ELSE b

CharAt(s, i) == SubSeq(s, i, i)

\* s.startsWith(sub, i) with a 1-based position
StartsWithAt(s, sub, i) ==
  /\ i + Len(sub) - 1 <= Len(s)
  /\ SubSeq(s, i, i + Len(sub) - 1) = sub

\* first position >= from at which sub occurs in s, 0 when there is none
IndexOfFrom(s, sub, from) ==
  LET hits == {i \in from..(Len(s) - Len(sub) + 1) : StartsWithAt(s, sub, i)}
  IN  IF hits = {} THEN 0 ELSE CHOOSE i \in hits : \A j \in hits : i <= j

\* String.prototype.split with a one-character separator
RECURSIVE Split(_, _)
Split(s, sep) ==
  LET i == IndexOfFrom(s, sep, 1)
  IN  IF i = 0 THEN <<s>>
      ELSE <<SubSeq(s, 1, i - 1)>> \o Split(SubSeq(s, i + Len(sep), Len(s)), sep)

\* the white space characters String.prototype.trim strips (those a TLA+
\* string can hold)
WhiteSpace == {" ", "\t", "\n", "\r", "\f"}

RECURSIVE TrimStart(_)
TrimStart(s) ==
  IF Len(s) > 0 /\ CharAt(s, 1) \in WhiteSpace
    THEN TrimStart(SubSeq(s, 2, Len(s))) ELSE s

RECURSIVE TrimEnd(_)
TrimEnd(s) ==
  IF Len(s) > 0 /\ CharAt(s, Len(s)) \in WhiteSpace
    THEN TrimEnd(SubSeq(s, 1, Len(s) - 1)) ELSE s

\* a trim that strips the leading white space only
TrimLeading(s) == TrimStart(s)

Trim(s) == TrimEnd(TrimStart(s))

\* the backquote character (the first character of a two-character string)
Backtick == SubSeq("`'", 1, 1)

\* GetSubstitution of ECMAScript for a pattern without capture groups:
\* in the replacement text, $$ is a dollar, $& the matched text, $ with a
\* backquote the text before the match and $ with an apostrophe the text
\* after it; any other $ is literal.
RECURSIVE GetSubstitution(_, _, _, _)
GetSubstitution(matched, str, position, replacement) ==
  IF Len(replacement) = 0 THEN ""
  ELSE IF CharAt(replacement, 1) = "$" /\ Len(replacement) >= 2
    THEN LET c == CharAt(replacement, 2)
             rest == SubSeq(replacement, 3, Len(replacement))
             after == position + Len(matched)
         IN  CASE c = "$" -> "$" \o GetSubstitution(matched, str, position, rest)
               [] c = "&" -> matched \o GetSubstitution(matched, str, position, rest)
               [] c = Backtick -> SubSeq(str, 1, position - 1)
                               \o GetSubstitution(matched, str, position, rest)
               [] c = "'" -> SubSeq(str, after, Len(str))
                               \o GetSubstitution(matched, str, position, rest)
               [] OTHER   -> "$" \o GetSubstitution(matched, str, position,
                                      SubSeq(replacement, 2, Len(replacement)))
  ELSE CharAt(replacement, 1)
         \o GetSubstitution(matched, str, position,
                            SubSeq(replacement, 2, Len(replacement)))

\* str.replace(/needle/g, replacement) for a literal, non-empty needle:
\* the matches are found left to right in str and do not overlap
RECURSIVE ReplaceFrom(_, _, _, _)
ReplaceFrom(str, needle, replacement, from) ==
  LET i == IndexOfFrom(str, needle, from)
  IN  IF i = 0 THEN SubSeq(str, from, Len(str))
      ELSE SubSeq(str, from, i - 1)
             \o GetSubstitution(needle, str, i, replacement)
             \o ReplaceFrom(str, needle, replacement, i + Len(needle))

ReplaceAll(str, needle, replacement) == ReplaceFrom(str, needle, replacement, 1)

\* QuoteJSONString: JSON.stringify of a string
RECURSIVE JSONEscape(_)
JSONEscape(s) ==
  IF Len(s) = 0 THEN ""
  ELSE LET c == CharAt(s, 1)
           e == CASE c = "\"" -> "\\\""
                  [] c = "\\" -> "\\\\"
                  [] c = "\n" -> "\\n"
                  [] c = "\t" -> "\\t"
                  [] c = "\r" -> "\\r"
                  [] c = "\f" -> "\\f"
                  [] OTHER    -> c
       IN  e \o JSONEscape(SubSeq(s, 2, Len(s)))

StringifyString(s) == "\"" \o JSONEscape(s) \o "\""

\* JSON.stringify of an array of strings
RECURSIVE JoinStringified(_)
JoinStringified(a) ==
  IF Len(a) = 0 THEN ""
  ELSE IF Len(a) = 1 THEN StringifyString(a[1])
  ELSE StringifyString(a[1]) \o "," \o JoinStringified(Tail(a))

StringifyArray(a) == "[" \o JoinStringified(a) \o "]"

\* JSON.stringify of a boolean
StringifyBoolean(b) == IF b THEN "true" ELSE "false"

\* s.replace(/^"|"$/g, '')
StripQuotes(s) ==
  LET a == IF Len(s) > 0 /\ CharAt(s, 1) = "\"" THEN 2 ELSE 1
      b == IF Len(s) >= a /\ CharAt(s, Len(s)) = "\"" THEN Len(s) - 1 ELSE Len(s)
  IN  SubSeq(s, a, b)

\* all strings over an alphabet of length at most n
RECURSIVE StringsUpTo(_, _)
StringsUpTo(alphabet, n) ==
  IF n = 0 THEN {""}
  ELSE LET shorter == StringsUpTo(alphabet, n - 1)
       IN  shorter \cup {s \o c : s \in shorter, c \in alphabet}

----------------------------------------------------------------------------
(***************************************************************************)
(* The pure functions of WebhookManager.                                   *)
(***************************************************************************)
debounceTime == 10000

\* a test that trims the pattern before it compares
IsPurgeAllTrimmed(pattern) == Trim(pattern) = "/$/" \/ Trim(pattern) = "/*"

\* parseInvalidationPattern, line 42
IsPurgeAll(pattern) == pattern = "/$/" \/ pattern = "/*"

\* parseInvalidationPattern; timestamp is what new Date().toISOString() gives
parseInvalidationPattern(ghostPublicUrl, pattern, timestamp) ==
  LET purgeAll == IsPurgeAll(pattern)
      parts == Split(pattern, ",")
      urls == IF purgeAll
                THEN <<ghostPublicUrl \o "/*">>
                ELSE [i \in 1..Len(parts) |-> ghostPublicUrl \o Trim(parts[i])]
  IN  [urls |-> urls, purgeAll |-> purgeAll, pattern |-> pattern,
       timestamp |-> timestamp]

\* processTemplate: four chained global replaces, each applied to the result
\* of the one before it
processTemplate(template, data) ==
  LET t1 == ReplaceAll(template, "${urls}", StringifyArray(data.urls))
      t2 == ReplaceAll(t1, "${purgeAll}", StringifyBoolean(data.purgeAll))
      t3 == ReplaceAll(t2, "${timestamp}",
                       StripQuotes(StringifyString(data.timestamp)))
  IN  ReplaceAll(t3, "${pattern}", StringifyString(data.pattern))

\* An optional configuration value: absent, or present with a value.
Absent == [present |-> FALSE, value |-> ""]
Present(v) == [present |-> TRUE, value |-> v]

\* secret || ''
SecretOrEmpty(secret) ==
  IF secret.present /\ secret.value # "" THEN secret.value ELSE ""

\* processHeaderTemplates; a header record is a sequence of <<name, value>>
\* pairs in the order of Object.entries
processHeaderTemplates(headers, secret) ==
  [i \in 1..Len(headers) |->
     <<headers[i][1], ReplaceAll(headers[i][2], "${secret}", SecretOrEmpty(secret))>>]

\* webhook.headers || {}
HeadersOrEmpty(headers) == IF headers.present THEN headers.value ELSE <<>>

HasKey(obj, k) == \E i \in 1..Len(obj) : obj[i][1] = k

Lookup(obj, k) == obj[CHOOSE i \in 1..Len(obj) : obj[i][1] = k][2]

\* obj[k] = v: an existing key keeps its place, a new key is added last
SetKey(obj, k, v) ==
  IF HasKey(obj, k)
    THEN [i \in 1..Len(obj) |-> IF obj[i][1] = k THEN <<k, v>> ELSE obj[i]]
    ELSE Append(obj, <<k, v>>)

\* { ...a, ...b }
RECURSIVE Spread(_, _)
Spread(a, b) ==
  IF Len(b) = 0 THEN a ELSE Spread(SetKey(a, b[1][1], b[1][2]), Tail(b))

\* a header set in which the default is spread last
BuildHeadersDefaultLast(webhook) ==
  Spread(processHeaderTemplates(HeadersOrEmpty(webhook.headers), webhook.secret),
         <<<<"Content-Type", "application/json">>>>)

\* the header set sendWebhookRequest builds
BuildHeaders(webhook) ==
  Spread(<<<<"Content-Type", "application/json">>>>,
         processHeaderTemplates(HeadersOrEmpty(webhook.headers), webhook.secret))

----------------------------------------------------------------------------
(***************************************************************************)
(* The configurations and inputs the model is run with.                    *)
(***************************************************************************)
\* WEBHOOK_BODY_TEMPLATE of example.env
ExampleBodyTemplate ==
  "{\"urls\": ${urls}, \"timestamp\": \"${timestamp}\", \"purgeAll\": ${purgeAll}}"

\* WEBHOOK_HEADERS of example.env
ExampleHeaders ==
  <<<<"Authorization", "Bearer ${secret}">>, <<"Content-Type", "application/json">>>>

RetryCounts == 0..MaxRetryCount

RetryDelays == {1000, 5000}

Configs ==
  [ghostPublicUrl : {"https://g"},
   debug : BOOLEAN,
   webhook : [url : {"https://api.example.com/invalidate"},
              method : {"POST"},
              secret : {Present("abc")},
              headers : {Present(ExampleHeaders)},
              bodyTemplate : {ExampleBodyTemplate},
              retryCount : RetryCounts,
              retryDelay : RetryDelays]]

\* the patterns the proxy passes to debouncePurgeCache
CallPatterns == {"/$/", "/a, /b"}

\* what new Date().toISOString() may give
Timestamps == {"2024-01-01T00:00:00.000Z", "2024-01-01T00:00:10.000Z"}

\* the statuses of a response that is not ok
ErrorStatuses == {500}

NoError == [kind |-> "none", status |-> 0, attempt |-> 0]

NoInput == [fn |-> "none"]

----------------------------------------------------------------------------
(***************************************************************************)
(* The state machine: the debounce gate and the delivery engine.           *)
(***************************************************************************)
TimerIds == 1..MaxCalls

Init ==
  /\ config \in Configs
  /\ cachePurgeTimeout = 0
  /\ timers = << >>
  /\ runs = << >>
  /\ calls = << >>
  /\ uncaught = 0
  /\ twin = << >>
  /\ input = NoInput
  /\ output = NoInput

\* a clearTimeout that cancels nothing
clearTimeoutNoOp(ts, handle) == ts

\* clearTimeout(handle): cancels the timer when it is still live, and does
\* nothing for a timer that has fired or was cleared
clearTimeout(ts, handle) ==
  [i \in DOMAIN ts \ {handle} |-> ts[i]]

\* setTimeout(callback, delay): a new live timer; the callback closes over
\* the pattern
setTimeout(ts, id, pattern, delay) ==
  [i \in DOMAIN ts \cup {id} |->
     IF i = id THEN [pattern |-> pattern, remaining |-> delay, age |-> 0]
     ELSE ts[i]]

\* a gate that schedules without cancelling
CancelPreviousSkipped(ts, handle) == ts

\* debouncePurgeCache, lines 11-13: the timers left after the cancellation
CancelPrevious(ts, handle) ==
  IF handle # 0 THEN clearTimeout(ts, handle) ELSE ts

\* a cancellation that also ends the sequence the fired timer has started
AbortInFlight(rs, handle) == [i \in DOMAIN rs \ {handle} |-> rs[i]]

\* debouncePurgeCache, lines 11-13: the delivery sequences after
\* clearTimeout(handle); clearing a timer that has fired leaves the
\* sequence its callback started alone
SequencesAfterCancel(rs, handle) == rs

\* a window taken from the configuration
DebounceDelayConfigured(cfg) == cfg.webhook.retryDelay

\* debouncePurgeCache, line 21: the delay of the debounce timer
DebounceDelay(cfg) == debounceTime

\* debouncePurgeCache(pattern)
debouncePurgeCache(pattern) ==
  /\ Len(calls) < MaxCalls
  /\ LET id == Len(calls) + 1
     IN  /\ timers' = setTimeout(CancelPrevious(timers, cachePurgeTimeout),
                                 id, pattern, DebounceDelay(config))
         /\ cachePurgeTimeout' = id
         /\ calls' = Append(calls,
                            [pattern |-> pattern,
                             superseded |-> IF cachePurgeTimeout \in DOMAIN timers
                                              THEN cachePurgeTimeout ELSE 0,
                             inFlight |-> Cardinality({i \in DOMAIN runs :
                                                         runs[i].pc \in {"fetch", "wait"}}),
                             firedAfter |-> -1,
                             result |-> "returned"])
  /\ runs' = SequencesAfterCancel(runs, cachePurgeTimeout)
  /\ twin' = SequencesAfterCancel(twin, cachePurgeTimeout)
  /\ UNCHANGED <<config, uncaught, input, output>>

\* the request of one attempt (the arguments of fetch)
Request(webhook, headers, body) ==
  [url |-> webhook.url, method |-> webhook.method, headers |-> headers,
   body |-> body]

\* a loop without its bound
LoopContinuesAlways(attempt, retryCount) == TRUE

\* sendWebhookRequest, line 102: the loop condition
LoopContinues(attempt, retryCount) == attempt <= retryCount

\* a loop that gives up one attempt early
IsLastAttemptEarly(attempt, retryCount) == attempt >= retryCount - 1

\* sendWebhookRequest, line 123: whether a failed attempt is the last one
IsLastAttempt(attempt, retryCount) == attempt = retryCount

\* a delay that grows with the attempt number
RetryWaitGrowing(webhook, attempt) == webhook.retryDelay * attempt

\* sendWebhookRequest, line 128: the delay of the wait after a failed attempt
RetryWait(webhook, attempt) == webhook.retryDelay

\* a callback without its try/catch
CallbackRethrowsAlways == TRUE

\* the timer callback, lines 16-20: whether an error thrown by
\* triggerWebhook leaves the callback (it is caught and logged)
CallbackRethrows == FALSE

\* triggerWebhook, lines 33-36: the error it throws for an error of
\* sendWebhookRequest (logged and thrown again)
triggerWebhookError(error) == error

\* the members of JSON.stringify(headers, null, 2)
RECURSIVE HeaderMembers(_)
HeaderMembers(headers) ==
  IF Len(headers) = 0 THEN ""
  ELSE "  " \o StringifyString(headers[1][1]) \o ": "
         \o StringifyString(headers[1][2])
         \o (IF Len(headers) = 1 THEN "" ELSE ",\n" \o HeaderMembers(Tail(headers)))

\* JSON.stringify(headers, null, 2), line 83
StringifyHeaders(headers) ==
  IF Len(headers) = 0 THEN "{}" ELSE "{\n" \o HeaderMembers(headers) \o "\n}"

\* lines 89-91: one --header option per header
RECURSIVE CurlHeaders(_)
CurlHeaders(headers) ==
  IF Len(headers) = 0 THEN ""
  ELSE " \\\n     --header '" \o headers[1][1] \o ": " \o headers[1][2] \o "'"
         \o CurlHeaders(Tail(headers))

\* lines 88-96: the equivalent curl command; the body is left out for GET
\* and HEAD and its single quotes are escaped
CurlCommand(webhook, headers, body) ==
  "curl --request " \o webhook.method \o " \\\n     --url '" \o webhook.url \o "'"
    \o CurlHeaders(headers)
    \o (IF body # "" /\ webhook.method # "GET" /\ webhook.method # "HEAD"
          THEN " \\\n     --data '" \o ReplaceAll(body, "'", "'\\''") \o "'"
          ELSE "")

\* lines 79-99: the lines the block before the loop writes to the console
\* (without the emoji of the two headings)
DebugRequestLog(cfg, headers, body) ==
  IF cfg.debug
    THEN <<"[Webhook Debug] Sending request:",
           "   URL: " \o cfg.webhook.url,
           "   Method: " \o cfg.webhook.method,
           "   Headers: " \o StringifyHeaders(headers),
           "   Body: " \o body,
           "[Webhook Debug] Equivalent curl command:",
           CurlCommand(cfg.webhook, headers, body)>>
    ELSE << >>

\* lines 112-117: the lines written for a response that is not ok; of the
\* response the model keeps the status only
DebugResponseLog(cfg, status) ==
  IF cfg.debug
    THEN <<"[Webhook Debug] Received error response:",
           "   Status: " \o ToString(status)>>
    ELSE << >>

\* the delivery sequence started by a fired timer: triggerWebhook up to the
\* first fetch of sendWebhookRequest
StartRun(cfg, pattern, timestamp) ==
  LET webhook == cfg.webhook
      data == parseInvalidationPattern(cfg.ghostPublicUrl, pattern, timestamp)
      body == processTemplate(webhook.bodyTemplate, data)
      headers == BuildHeaders(webhook)
      enters == LoopContinues(1, webhook.retryCount)
  IN  [pattern |-> pattern, data |-> data, body |-> body, headers |-> headers,
       attempt |-> 1,
       pc |-> IF enters THEN "fetch" ELSE "done",
       remaining |-> 0,
       elapsed |-> 0,
       requests |-> IF enters THEN <<Request(webhook, headers, body)>> ELSE << >>,
       waits |-> << >>,
       errors |-> << >>,
       result |-> IF enters THEN "none" ELSE "success",
       raised |-> NoError,
       log |-> DebugRequestLog(cfg, headers, body)]

\* a callback that resets the handle when its timer fires
HandleClearedOnFire(handle, id) == IF handle = id THEN 0 ELSE handle

\* the timer callback, lines 15-21: the handle field after timer id has
\* fired (the callback does not assign it)
HandleAfterFire(handle, id) == handle

\* the debounce timer of call id is due and leaves the set of live timers
TimerFires(id) ==
  /\ id \in DOMAIN timers
  /\ timers[id].remaining = 0
  /\ timers' = [i \in DOMAIN timers \ {id} |-> timers[i]]
  /\ calls' = [calls EXCEPT ![id].firedAfter = timers[id].age]
  /\ cachePurgeTimeout' = HandleAfterFire(cachePurgeTimeout, id)
  /\ UNCHANGED <<config, uncaught, input, output>>

\* the configuration of the second manager
TwinConfig == [config EXCEPT !.debug = ~config.debug]

\* the debounce timer of call id fires: its callback runs triggerWebhook
FireTimer(id) ==
  /\ TimerFires(id)
  /\ \E timestamp \in Timestamps :
       /\ runs' = [i \in DOMAIN runs \cup {id} |->
                     IF i = id THEN StartRun(config, timers[id].pattern, timestamp)
                     ELSE runs[i]]
       /\ twin' = [i \in DOMAIN twin \cup {id} |->
                     IF i = id THEN StartRun(TwinConfig, timers[id].pattern, timestamp)
                     ELSE twin[i]]

\* line 121: the sequence returns after an ok response
Succeed(r) == [r EXCEPT !.pc = "done", !.result = "success"]

\* the catch block of the retry loop, lines 122-129, for the error of the
\* current attempt of sequence r
AttemptFailed(cfg, r, error) ==
  IF IsLastAttempt(r.attempt, cfg.webhook.retryCount)
    THEN [r EXCEPT !.pc = "failed",
                   !.result = "error",
                   !.errors = Append(r.errors, error),
                   !.raised = triggerWebhookError(error)]
    ELSE [r EXCEPT !.pc = "wait",
                   !.errors = Append(r.errors, error),
                   !.remaining = RetryWait(cfg.webhook, r.attempt),
                   !.elapsed = 0]

\* a throw that has slipped into the debug block
ThrowsOnlyInDebug(cfg) == cfg.debug

\* line 118 stands after the debug block of lines 112-117: the error is
\* thrown with and without debug
ThrowsOnNotOk(cfg) == TRUE

\* lines 110-119 for a response that is not ok
NotOk(cfg, r, status) ==
  LET logged == [r EXCEPT !.log = @ \o DebugResponseLog(cfg, status)]
  IN  IF ThrowsOnNotOk(cfg)
        THEN AttemptFailed(cfg, logged,
                           [kind |-> "http", status |-> status, attempt |-> r.attempt])
        ELSE Succeed(logged)

\* fetch, or the read of the error text, rejects with a transport error
Rejected(cfg, r) ==
  AttemptFailed(cfg, r, [kind |-> "transport", status |-> 0, attempt |-> r.attempt])

\* the fetch of sequence id settles: r1 is the sequence after it, r2 the
\* sequence of the second manager after the same response
Settle(id, r1, r2) ==
  /\ runs' = [runs EXCEPT ![id] = r1]
  /\ twin' = IF id \in DOMAIN twin /\ twin[id].pc = "fetch"
               THEN [twin EXCEPT ![id] = r2] ELSE twin
  /\ uncaught' = IF r1.result = "error" /\ CallbackRethrows
                   THEN uncaught + 1 ELSE uncaught
  /\ UNCHANGED <<config, cachePurgeTimeout, timers, calls, input, output>>

\* the fetch of run id resolves with an ok response: line 121
FetchOk(id) ==
  /\ id \in DOMAIN runs
  /\ runs[id].pc = "fetch"
  /\ Settle(id, Succeed(runs[id]), Succeed(twin[id]))

\* the fetch of run id resolves with a response that is not ok: lines 110-119
FetchNotOk(id) ==
  /\ id \in DOMAIN runs
  /\ runs[id].pc = "fetch"
  /\ \E status \in ErrorStatuses :
       Settle(id, NotOk(config, runs[id], status), NotOk(TwinConfig, twin[id], status))

\* the fetch of run id (or the read of the error text) rejects with a
\* transport error
FetchRejects(id) ==
  /\ id \in DOMAIN runs
  /\ runs[id].pc = "fetch"
  /\ Settle(id, Rejected(config, runs[id]), Rejected(TwinConfig, twin[id]))

\* an attempt that renders the body again, at the time of the attempt
AttemptRequestRendered(webhook, r) ==
  Request(webhook, r.headers,
          processTemplate(webhook.bodyTemplate,
                          [r.data EXCEPT !.timestamp =
                             CHOOSE t \in Timestamps : t # r.data.timestamp]))

\* lines 104-108: the request of an attempt of sequence r, made of the
\* headers and the body rendered before the loop
AttemptRequest(webhook, r) == Request(webhook, r.headers, r.body)

\* lines 128-130 and 102: the wait of sequence r is over and the loop goes
\* to its next attempt
NextAttempt(cfg, r) ==
  IF LoopContinues(r.attempt + 1, cfg.webhook.retryCount)
    THEN [r EXCEPT !.pc = "fetch",
                   !.attempt = r.attempt + 1,
                   !.waits = Append(r.waits, r.elapsed),
                   !.requests = Append(r.requests, AttemptRequest(cfg.webhook, r))]
    ELSE [r EXCEPT !.pc = "done",
                   !.attempt = r.attempt + 1,
                   !.waits = Append(r.waits, r.elapsed),
                   !.result = "success"]

\* the retry wait of run id is over: the loop goes to its next attempt
RetryWaitOver(id) ==
  /\ id \in DOMAIN runs
  /\ runs[id].pc = "wait"
  /\ runs[id].remaining = 0
  /\ runs' = [runs EXCEPT ![id] = NextAttempt(config, runs[id])]
  /\ twin' = IF id \in DOMAIN twin /\ twin[id].pc = "wait"
               THEN [twin EXCEPT ![id] = NextAttempt(TwinConfig, twin[id])]
               ELSE twin
  /\ UNCHANGED <<config, cachePurgeTimeout, timers, calls, uncaught, input, output>>

\* the remaining times of all live timers: debounce timers and retry waits
Remaining ==
  {timers[i].remaining : i \in DOMAIN timers}
    \cup {runs[i].remaining : i \in {j \in DOMAIN runs : runs[j].pc = "wait"}}

TickMs == debounceTime \div TicksPerWindow

\* a sequence after d ms have passed
Elapse(r, d) ==
  IF r.pc = "wait"
    THEN [r EXCEPT !.remaining = @ - d, !.elapsed = @ + d]
    ELSE r

\* time passes: by TickMs, or less when a timer is due earlier
Tick ==
  /\ Remaining # {}
  /\ \A t \in Remaining : t > 0
  /\ LET least == CHOOSE t \in Remaining : \A u \in Remaining : t <= u
         d == Min(TickMs, least)
     IN  /\ timers' = [i \in DOMAIN timers |->
                         [timers[i] EXCEPT !.remaining = @ - d, !.age = @ + d]]
         /\ runs' = [i \in DOMAIN runs |-> Elapse(runs[i], d)]
         /\ twin' = [i \in DOMAIN twin |-> Elapse(twin[i], d)]
  /\ UNCHANGED <<config, cachePurgeTimeout, calls, uncaught, input, output>>

Next ==
  \/ \E pattern \in CallPatterns : debouncePurgeCache(pattern)
  \/ \E id \in TimerIds : FireTimer(id)
  \/ \E id \in TimerIds : FetchOk(id)
  \/ \E id \in TimerIds : FetchNotOk(id)
  \/ \E id \in TimerIds : FetchRejects(id)
  \/ \E id \in TimerIds : RetryWaitOver(id)
  \/ Tick

Spec == Init /\ [][Next]_vars

\* Timers that are due fire, time passes and a retry wait that is over
\* resumes its loop: the event loop runs every callback that is ready.
\* Nothing makes a fetch settle.  (A step of Next is a TimerFires(id) step
\* exactly when it is a FireTimer(id) step.)
FairSpec ==
  /\ Spec
  /\ WF_vars(Tick)
  /\ \A id \in TimerIds : WF_timers(TimerFires(id)) /\ WF_vars(RetryWaitOver(id))

\* the fetch of run id settles, one way or another
FetchSettles(id) == FetchOk(id) \/ FetchNotOk(id) \/ FetchRejects(id)

\* FairSpec, and every fetch eventually settles: the webhook answers, or
\* the transport fails.  The code sets no timeout on fetch; this is a
\* condition on the network, not a property of the manager.
LiveSpec ==
  /\ FairSpec
  /\ \A id \in TimerIds : WF_vars(FetchSettles(id))

----------------------------------------------------------------------------
(***************************************************************************)
(* The claims about the debounce gate and the delivery engine.             *)
(***************************************************************************)
InFlight == {id \in DOMAIN runs : runs[id].pc \in {"fetch", "wait"}}

\* call i was followed by a call that arrived before the timer of i fired
Superseded(i) == i < Len(calls) /\ calls[i + 1].superseded = i

C1_Safe ==
  /\ \A i \in 1..Len(calls) : Superseded(i) => i \notin DOMAIN runs
  /\ \A id \in DOMAIN runs :
       /\ id \in 1..Len(calls)
       /\ runs[id].pattern = calls[id].pattern
       /\ runs[id].data.pattern = calls[id].pattern

C1_Started ==
  \A i \in 1..Len(calls) : ~Superseded(i) => i \in DOMAIN runs

\* C1: of the calls of a burst (each call after the first arrives before the
\* timer of the call before it has fired) only the last one is delivered:
\* a superseded call never starts a delivery sequence, every sequence runs
\* with the pattern of the call whose timer fired, and eventually every call
\* that was not superseded has started its one sequence.
C1_Debounce == []C1_Safe /\ <>[]C1_Started

\* a burst of two calls with different patterns, the second one delivered
C1_Witness ==
  /\ Len(calls) = 2
  /\ calls[2].superseded = 1
  /\ calls[1].pattern # calls[2].pattern
  /\ 2 \in DOMAIN runs
  /\ runs[2].pattern = calls[2].pattern

C2_Inv ==
  \A id \in DOMAIN runs :
    LET r == runs[id]
        k == Len(r.requests)
    IN  (config.webhook.retryCount >= 1 /\ r.result = "success") =>
          /\ k >= 1
          /\ k <= config.webhook.retryCount
          /\ Len(r.errors) = k - 1
          /\ Len(r.waits) = k - 1
          /\ \A w \in 1..Len(r.waits) : r.waits[w] = config.webhook.retryDelay
          /\ r.pc = "done"

\* C2: with retryCount >= 1, a delivery that succeeds on attempt k has made
\* exactly k requests, k-1 of which failed, has waited k-1 times, each time
\* for exactly retryDelay, and issues nothing after the success.
C2_RetryThenSuccess ==
  /\ []C2_Inv
  /\ [][\A id \in DOMAIN runs :
          runs[id].result = "success" => runs'[id] = runs[id]]_vars

\* retryCount = 3, attempts 1 and 2 failed, attempt 3 succeeded
C2_Witness ==
  \E id \in DOMAIN runs :
    /\ config.webhook.retryCount = 3
    /\ runs[id].result = "success"
    /\ Len(runs[id].requests) = 3
    /\ Len(runs[id].waits) = 2

C3_Inv ==
  \A id \in DOMAIN runs :
    LET r == runs[id]
        N == config.webhook.retryCount
    IN  /\ (N >= 1 /\ r.result = "error") =>
             /\ Len(r.requests) = N
             /\ Len(r.errors) = N
             /\ Len(r.waits) = N - 1
             /\ r.raised = r.errors[N]
             /\ r.raised.attempt = N
             /\ \A a \in 1..(N - 1) : r.raised # r.errors[a]
             /\ r.pc = "failed"
        /\ (N >= 1 /\ Len(r.errors) >= N) => r.result = "error"

\* C3: with retryCount = N >= 1, a delivery whose N attempts all failed
\* raises the error of attempt N after exactly N requests and N-1 waits, no
\* wait follows the last failure, and the run does nothing more.
C3_Exhaustion ==
  /\ []C3_Inv
  /\ [][\A id \in DOMAIN runs :
          runs[id].result = "error" => runs'[id] = runs[id]]_vars

\* retryCount = 2, a status error then a transport error: the transport
\* error is raised
C3_Witness ==
  \E id \in DOMAIN runs :
    /\ config.webhook.retryCount = 2
    /\ runs[id].result = "error"
    /\ runs[id].errors[1].kind = "http"
    /\ runs[id].raised.kind = "transport"

\* C4 as claimed: at most one delivery sequence is in flight.
C4_AtMostOneInFlight == Cardinality(InFlight) <= 1

\* C4, amended: at most one delivery sequence is in flight as long as no
\* debouncePurgeCache call was made while a delivery sequence was in flight.
C4_OneInFlightUnlessCalledDuring ==
  (\A i \in 1..Len(calls) : calls[i].inFlight = 0) => Cardinality(InFlight) <= 1

\* a sequence in flight, after two calls none of which came during a sequence
C4_Witness ==
  /\ Len(calls) = 2
  /\ \A i \in 1..Len(calls) : calls[i].inFlight = 0
  /\ Cardinality(InFlight) = 1

\* C5: every debouncePurgeCache call returns normally, and before any
\* request of its dispatch is issued (the step of the call starts no delivery
\* sequence and issues no request); the error of a failed delivery never
\* leaves the timer callback.
C5_FireAndForget ==
  /\ [](/\ uncaught = 0
        /\ \A i \in 1..Len(calls) : calls[i].result = "returned"
        /\ \A id \in DOMAIN runs : id \in 1..Len(calls))
  /\ [][Len(calls') > Len(calls) =>
          /\ runs' = runs
          /\ Len(calls') \notin DOMAIN runs'
          /\ Len(calls') \in DOMAIN timers'
          /\ timers'[Len(calls')].remaining > 0]_vars

\* a delivery has failed on its last attempt and nothing escaped
C5_Witness ==
  \E id \in DOMAIN runs :
    /\ runs[id].result = "error"
    /\ runs[id].raised.kind # "none"
    /\ calls[id].result = "returned"
    /\ uncaught = 0

\* C6: at most one debounce timer is live, and a live timer is the one
\* cachePurgeTimeout refers to.
C6_OneLiveTimer ==
  /\ Cardinality(DOMAIN timers) <= 1
  /\ \A id \in DOMAIN timers : id = cachePurgeTimeout

\* a second call has replaced the live timer of the first
C6_Witness ==
  /\ Len(calls) = 2
  /\ calls[2].superseded = 1
  /\ DOMAIN timers = {2}
  /\ cachePurgeTimeout = 2

\* r2 is sequence r after a step of its own: a response, a transport error,
\* the passing of time during its wait, or the end of its wait
OwnStep(r, r2) ==
  \/ r.pc = "fetch" /\ r2 = Succeed(r)
  \/ r.pc = "fetch" /\ \E status \in ErrorStatuses : r2 = NotOk(config, r, status)
  \/ r.pc = "fetch" /\ r2 = Rejected(config, r)
  \/ r.pc = "wait" /\ r.remaining = 0 /\ r2 = NextAttempt(config, r)
  \/ /\ r.pc = "wait"
     /\ r2.remaining < r.remaining
     /\ r2 = Elapse(r, r.remaining - r2.remaining)

\* C12: a call made while a delivery sequence is in flight leaves every
\* sequence as it is and creates a pending timer for its own pattern with
\* the full window; a sequence in flight changes by its own steps only
\* (responses, transport errors, its waits), whatever calls are made.
C12_InFlightUnaltered ==
  [][/\ \A id \in InFlight :
          /\ id \in DOMAIN runs'
          /\ runs'[id] = runs[id] \/ OwnStep(runs[id], runs'[id])
     /\ (Len(calls') > Len(calls) /\ InFlight # {}) =>
          /\ runs' = runs
          /\ Len(calls') \in DOMAIN timers'
          /\ timers'[Len(calls')].pattern = calls'[Len(calls')].pattern
          /\ timers'[Len(calls')].remaining = debounceTime
          /\ Len(calls') \notin DOMAIN runs']_vars

\* a call was made while the first sequence was in flight; that sequence
\* has gone on to retry and to end, and the timer of the call is pending
C12_Witness ==
  /\ Len(calls) = 2
  /\ calls[2].inFlight = 1
  /\ 1 \in DOMAIN runs
  /\ Len(runs[1].requests) >= 2
  /\ runs[1].result \in {"success", "error"}
  /\ 2 \in DOMAIN timers
  /\ timers[2].pattern = calls[2].pattern

\* C13: a delivery sequence ends in success only if it has made at least
\* one request and its last request was answered by an ok response (every
\* request but the last one failed), for every retry count.
C13_SuccessNeedsOkAttempt ==
  \A id \in DOMAIN runs :
    runs[id].result = "success" =>
      /\ Len(runs[id].requests) >= 1
      /\ Len(runs[id].errors) = Len(runs[id].requests) - 1

\* the timer of call i has fired
Fired(i) == calls[i].firedAfter # -1

C14_Safe ==
  /\ \A i \in 1..Len(calls) :
       /\ Superseded(i) => ~Fired(i)
       /\ Fired(i) => calls[i].firedAfter = 10000
       /\ Fired(i) <=> i \in DOMAIN runs
       /\ i \in DOMAIN timers =>
            /\ ~Fired(i)
            /\ timers[i].age + timers[i].remaining = 10000
  /\ \A id \in DOMAIN runs : id \in 1..Len(calls)
  /\ Cardinality(DOMAIN runs) <= Len(calls)
  /\ \A id \in DOMAIN runs : runs[id].data.pattern = calls[id].pattern

C14_Fires == \A i \in 1..Len(calls) : ~Superseded(i) => Fired(i)

\* C14: the timer of a call fires if and only if no later call arrives
\* before it has fired: a superseded timer never fires, and the timer of a
\* call that is not superseded fires, 10,000 ms after the call whatever the
\* configuration; a call starts at most one delivery sequence, which is
\* never started again, and the sequence delivers the pattern of its call.
C14_FiresOnceAfterWindow ==
  /\ []C14_Safe
  /\ <>[]C14_Fires
  /\ [][\A id \in DOMAIN runs :
          /\ id \in DOMAIN runs'
          /\ runs'[id].data = runs[id].data
          /\ calls'[id].firedAfter = calls[id].firedAfter]_vars

\* of two calls the first was superseded and has not fired; the timer of
\* the second has fired, a full window after the second call
C14_Witness ==
  /\ Len(calls) = 2
  /\ Superseded(1)
  /\ ~Fired(1)
  /\ Fired(2)
  /\ calls[2].firedAfter = debounceTime
  /\ DOMAIN runs = {2}
  /\ config.webhook.retryDelay # debounceTime

C16_Bounded ==
  \A id \in DOMAIN runs :
    LET r == runs[id]
        N == IF config.webhook.retryCount > 0 THEN config.webhook.retryCount ELSE 0
    IN  /\ Len(r.requests) <= N
        /\ r.attempt <= N + 1
        /\ r.pc = "done" => r.result = "success" /\ r.raised = NoError
        /\ r.pc = "failed" => r.result = "error" /\ r.raised # NoError

C16_Delivered ==
  \A i \in 1..Len(calls) :
    ~Superseded(i) => i \in DOMAIN runs /\ runs[i].pattern = calls[i].pattern

\* C16: when timers fire and every fetch settles, every delivery sequence
\* that has started ends, in success or in a raised error, having made at
\* most retryCount requests, and every call that is not superseded leads to
\* the start of a sequence for its pattern.
C16_BoundedDelivery ==
  /\ []C16_Bounded
  /\ \A id \in TimerIds :
       (id \in DOMAIN runs) ~> (id \in DOMAIN runs /\ runs[id].pc \in {"done", "failed"})
  /\ <>[]C16_Delivered

\* two calls, neither superseded: both sequences have ended, one of them in
\* an error after retryCount requests
C16_Witness ==
  /\ Len(calls) = 2
  /\ ~Superseded(1)
  /\ DOMAIN runs = {1, 2}
  /\ InFlight = {}
  /\ config.webhook.retryCount >= 2
  /\ \E id \in DOMAIN runs :
       /\ runs[id].result = "error"
       /\ Len(runs[id].requests) = config.webhook.retryCount

\* C17: only a debouncePurgeCache call changes cachePurgeTimeout (to the
\* handle of the timer it has set); the firing of a timer, the attempts, the
\* waits and the end of a delivery sequence leave it as it is, and no step
\* changes the configuration.
C17_HandleFrame ==
  [][/\ config' = config
     /\ IF Len(calls') > Len(calls)
          THEN cachePurgeTimeout' = Len(calls') /\ cachePurgeTimeout' \in DOMAIN timers'
          ELSE cachePurgeTimeout' = cachePurgeTimeout]_vars

\* the timer of the only call has fired and its sequence has retried and
\* failed; the handle still names that timer
C17_Witness ==
  /\ Len(calls) = 1
  /\ cachePurgeTimeout = 1
  /\ 1 \notin DOMAIN timers
  /\ 1 \in DOMAIN runs
  /\ runs[1].result = "error"
  /\ Len(runs[1].waits) >= 1

C19_Same ==
  \A id \in DOMAIN runs :
    LET r == runs[id]
    IN  \A k \in 1..Len(r.requests) :
          /\ r.requests[k] = r.requests[1]
          /\ r.requests[k].url = config.webhook.url
          /\ r.requests[k].method = config.webhook.method
          /\ r.requests[k].headers = r.headers
          /\ r.requests[k].body = r.body

\* C19: all requests of a delivery sequence, retries included, carry the
\* same method, URL, headers and body; the intent, the body and the headers
\* of a sequence are set when it starts and no later step, wait or call
\* changes them or the requests already sent.
C19_RenderedOnce ==
  /\ []C19_Same
  /\ [][\A id \in DOMAIN runs :
          /\ id \in DOMAIN runs'
          /\ runs'[id].data = runs[id].data
          /\ runs'[id].body = runs[id].body
          /\ runs'[id].headers = runs[id].headers
          /\ Len(runs'[id].requests) >= Len(runs[id].requests)
          /\ SubSeq(runs'[id].requests, 1, Len(runs[id].requests)) = runs[id].requests]_vars

\* a sequence of three requests with two waits between them, during which
\* another call was made
C19_Witness ==
  /\ Len(calls) = 2
  /\ calls[2].inFlight = 1
  /\ 1 \in DOMAIN runs
  /\ Len(runs[1].requests) = 3
  /\ Len(runs[1].waits) = 2
  /\ runs[1].waits[1] > 0

\* what a delivery sequence does towards the webhook and its caller: the
\* requests sent, the waits made and pending, and the outcome
Observable(r) ==
  [requests |-> r.requests, waits |-> r.waits, errors |-> r.errors,
   pc |-> r.pc, remaining |-> r.remaining,
   result |-> r.result, raised |-> r.raised]

\* C11: two managers whose configurations differ in the debug flag only and
\* which are given the same calls, clock and responses start the same
\* delivery sequences, send the same requests (method, URL, headers, body),
\* make the same waits and end with the same outcome.
C11_DebugObservabilityOnly ==
  /\ DOMAIN twin = DOMAIN runs
  /\ \A id \in DOMAIN runs : Observable(twin[id]) = Observable(runs[id])

\* a sequence that has logged its request and an error response, retried
\* and ended, next to one that has logged nothing
C11_Witness ==
  \E id \in DOMAIN runs :
    /\ Len(runs[id].log) > Len(DebugRequestLog(config, runs[id].headers, runs[id].body))
    /\ config.debug
    /\ twin[id].log = << >>
    /\ Len(runs[id].requests) >= 2
    /\ runs[id].result \in {"success", "error"}

----------------------------------------------------------------------------
(***************************************************************************)
(* JSON.parse, for the documents a body template can render to: an object  *)
(* whose values are strings, booleans, arrays or objects of these.  A      *)
(* number, a null or a \u escape is reported as not parsed; no field of an *)
(* invalidation intent decodes from one.                                   *)
(***************************************************************************)
JString(v) == [kind |-> "string", v |-> v]
JBool(v) == [kind |-> "bool", v |-> v]
JArray(v) == [kind |-> "array", v |-> v]
JObject(v) == [kind |-> "object", v |-> v]

ParseFail == [ok |-> FALSE, v |-> [kind |-> "none"], next |-> 0]
ParseOk(v, next) == [ok |-> TRUE, v |-> v, next |-> next]

JSONWhiteSpace == {" ", "\t", "\n", "\r"}

RECURSIVE SkipWs(_, _)
SkipWs(s, i) ==
  IF i <= Len(s) /\ CharAt(s, i) \in JSONWhiteSpace THEN SkipWs(s, i + 1) ELSE i

\* the characters of a string literal from position i, up to its closing quote
RECURSIVE ParseChars(_, _, _)
ParseChars(s, i, acc) ==
  IF i > Len(s) THEN ParseFail
  ELSE LET c == CharAt(s, i)
       IN  IF c = "\"" THEN ParseOk(JString(acc), i + 1)
           ELSE IF c \in {"\n", "\t", "\r", "\f"} THEN ParseFail
           ELSE IF c = "\\"
             THEN IF i + 1 > Len(s) THEN ParseFail
                  ELSE LET e == CharAt(s, i + 1)
                       IN  CASE e = "\"" -> ParseChars(s, i + 2, acc \o "\"")
                             [] e = "\\" -> ParseChars(s, i + 2, acc \o "\\")
                             [] e = "/"  -> ParseChars(s, i + 2, acc \o "/")
                             [] e = "n"  -> ParseChars(s, i + 2, acc \o "\n")
                             [] e = "t"  -> ParseChars(s, i + 2, acc \o "\t")
                             [] e = "r"  -> ParseChars(s, i + 2, acc \o "\r")
                             [] e = "f"  -> ParseChars(s, i + 2, acc \o "\f")
                             [] OTHER    -> ParseFail
           ELSE ParseChars(s, i + 1, acc \o c)

RECURSIVE ParseValue(_, _)
RECURSIVE ParseElements(_, _, _)
RECURSIVE ParseMembers(_, _, _)

\* the elements of an array from position i (after "[" or ","), acc so far
ParseElements(s, i, acc) ==
  LET e == ParseValue(s, SkipWs(s, i))
  IN  IF ~e.ok THEN ParseFail
      ELSE LET j == SkipWs(s, e.next)
           IN  IF j > Len(s) THEN ParseFail
               ELSE IF CharAt(s, j) = "]" THEN ParseOk(JArray(Append(acc, e.v)), j + 1)
               ELSE IF CharAt(s, j) = "," THEN ParseElements(s, j + 1, Append(acc, e.v))
               ELSE ParseFail

\* the members of an object from position i (after "{" or ","), acc so far
ParseMembers(s, i, acc) ==
  LET j == SkipWs(s, i)
  IN  IF j > Len(s) \/ CharAt(s, j) # "\"" THEN ParseFail
      ELSE LET k == ParseChars(s, j + 1, "")
           IN  IF ~k.ok THEN ParseFail
               ELSE LET c == SkipWs(s, k.next)
                    IN  IF c > Len(s) \/ CharAt(s, c) # ":" THEN ParseFail
                        ELSE LET e == ParseValue(s, SkipWs(s, c + 1))
                             IN  IF ~e.ok THEN ParseFail
                                 ELSE LET n == SkipWs(s, e.next)
                                          m == Append(acc, <<k.v.v, e.v>>)
                                      IN  IF n > Len(s) THEN ParseFail
                                          ELSE IF CharAt(s, n) = "}"
                                            THEN ParseOk(JObject(m), n + 1)
                                          ELSE IF CharAt(s, n) = ","
                                            THEN ParseMembers(s, n + 1, m)
                                          ELSE ParseFail

ParseValue(s, i) ==
  IF i > Len(s) THEN ParseFail
  ELSE LET c == CharAt(s, i)
       IN  CASE c = "\"" -> ParseChars(s, i + 1, "")
             [] c = "[" ->
                  LET j == SkipWs(s, i + 1)
                  IN  IF j <= Len(s) /\ CharAt(s, j) = "]"
                        THEN ParseOk(JArray(<< >>), j + 1)
                        ELSE ParseElements(s, i + 1, << >>)
             [] c = "{" ->
                  LET j == SkipWs(s, i + 1)
                  IN  IF j <= Len(s) /\ CharAt(s, j) = "}"
                        THEN ParseOk(JObject(<< >>), j + 1)
                        ELSE ParseMembers(s, i + 1, << >>)
             [] c = "t" -> IF StartsWithAt(s, "true", i)
                             THEN ParseOk(JBool(TRUE), i + 4) ELSE ParseFail
             [] c = "f" -> IF StartsWithAt(s, "false", i)
                             THEN ParseOk(JBool(FALSE), i + 5) ELSE ParseFail
             [] OTHER -> ParseFail

\* JSON.parse(s): the whole text is one value
JSONParse(s) ==
  LET r == ParseValue(s, SkipWs(s, 1))
  IN  IF r.ok /\ SkipWs(s, r.next) = Len(s) + 1 THEN r ELSE ParseFail

\* obj[key] of a decoded object: the last member with that key
HasMember(obj, key) == \E i \in 1..Len(obj.v) : obj.v[i][1] = key

Member(obj, key) ==
  LET last == CHOOSE i \in 1..Len(obj.v) :
                /\ obj.v[i][1] = key
                /\ \A j \in (i + 1)..Len(obj.v) : obj.v[j][1] # key
  IN  obj.v[last][2]

\* the decoded value is the array of strings a
IsStringArray(val, a) ==
  /\ val.kind = "array"
  /\ Len(val.v) = Len(a)
  /\ \A i \in 1..Len(a) : val.v[i].kind = "string" /\ val.v[i].v = a[i]

IsStringValue(val, str) == val.kind = "string" /\ val.v = str

IsBoolValue(val, b) == val.kind = "bool" /\ val.v = b

----------------------------------------------------------------------------
(***************************************************************************)
(* The pure functions applied to bounded sets of arguments: Init draws the *)
(* arguments, one action applies the function.                             *)
(***************************************************************************)
MaxPieces == 2
MaxSecretLen == 2

\* the characters of the patterns given to parseInvalidationPattern
PatternChars == {"/", "$", "*", ",", " ", "\t", "a"}

PatternStrings == StringsUpTo(PatternChars, MaxPatLen)

\* the pieces of the patterns rendered into a body: single characters, among
\* them those that JSON.stringify escapes and those that are special in a
\* replacement text, and the texts of the placeholders
BodyPieces ==
  {"/", "a", ",", " ", "$", "&", "'", Backtick, "\"", "\\", "{", "}",
   "${urls}", "${purgeAll}", "${timestamp}", "${pattern}"}

BodyPatterns == StringsUpTo(BodyPieces, MaxPieces)

\* a body template with the four placeholders: ${timestamp} inside quotes,
\* the other three in value position
FullBodyTemplate ==
  "{\"urls\": ${urls}, \"timestamp\": \"${timestamp}\", \"purgeAll\": ${purgeAll}, \"pattern\": ${pattern}}"

BaseUrls == {"", "https://g"}

PureConfigs ==
  [ghostPublicUrl : BaseUrls,
   debug : {FALSE},
   webhook : [url : {"https://api.example.com/invalidate"},
              method : {"POST"},
              secret : {Present("abc")},
              headers : {Present(ExampleHeaders)},
              bodyTemplate : {FullBodyTemplate},
              retryCount : {3},
              retryDelay : {1000}]]

\* header values: text around zero, one or two ${secret} placeholders
HeaderPieces == {"Bearer ", "${secret}", "x", "$"}

HeaderValues == StringsUpTo(HeaderPieces, MaxPieces)

HeaderRecords ==
  {<< >>} \cup {<<<<"Authorization", v>>>> : v \in HeaderValues}
    \cup {<<<<"Authorization", v>>, <<"X-Key", "${secret}">>>> : v \in HeaderValues}

Secrets ==
  {Absent} \cup {Present(v) : v \in StringsUpTo({"a", "b", "$", "&"}, MaxSecretLen)}
    \cup {Present("abc")}

\* configured header maps for the header set of a request: without and
\* with a Content-Type of their own, in either order, and with a name that
\* differs from Content-Type in case only
ContentTypeValues == {"application/json", "text/plain", "x-${secret}"}

BuildHeaderRecords ==
  {<< >>, <<<<"Authorization", "Bearer ${secret}">>>>,
   <<<<"Authorization", "Bearer ${secret}">>, <<"content-type", "text/plain">>>>}
    \cup {<<<<"Content-Type", v>>>> : v \in ContentTypeValues}
    \cup {<<<<"Authorization", "Bearer ${secret}">>, <<"Content-Type", v>>>> :
            v \in ContentTypeValues}
    \cup {<<<<"Content-Type", v>>, <<"X-Key", "${secret}">>>> : v \in ContentTypeValues}

BuildInputs ==
  [fn : {"build"},
   headers : {Absent} \cup {Present(h) : h \in BuildHeaderRecords},
   secret : Secrets]

ParseInputs ==
  [fn : {"parse"}, pattern : PatternStrings, timestamp : Timestamps]

TemplateInputs ==
  [fn : {"template"}, pattern : BodyPatterns, timestamp : Timestamps]

HeaderInputs ==
  [fn : {"headers"}, headers : HeaderRecords, secret : Secrets]

PureInit ==
  /\ config \in PureConfigs
  /\ cachePurgeTimeout = 0
  /\ timers = << >>
  /\ runs = << >>
  /\ calls = << >>
  /\ uncaught = 0
  /\ twin = << >>
  /\ input \in ParseInputs \cup TemplateInputs \cup HeaderInputs \cup BuildInputs
  /\ output = NoInput

Idle ==
  UNCHANGED <<config, cachePurgeTimeout, timers, runs, calls, uncaught, twin, input>>

\* this.parseInvalidationPattern(pattern)
ApplyParse ==
  /\ input.fn = "parse"
  /\ output = NoInput
  /\ output' = [fn |-> "parse",
                data |-> parseInvalidationPattern(config.ghostPublicUrl,
                                                  input.pattern, input.timestamp)]
  /\ Idle

\* this.processTemplate(webhook.bodyTemplate, this.parseInvalidationPattern(pattern))
ApplyTemplate ==
  /\ input.fn = "template"
  /\ output = NoInput
  /\ LET data == parseInvalidationPattern(config.ghostPublicUrl,
                                          input.pattern, input.timestamp)
     IN  output' = [fn |-> "template", data |-> data,
                    body |-> processTemplate(config.webhook.bodyTemplate, data)]
  /\ Idle

\* this.processHeaderTemplates(headers, secret)
ApplyHeaders ==
  /\ input.fn = "headers"
  /\ output = NoInput
  /\ output' = [fn |-> "headers",
                headers |-> processHeaderTemplates(input.headers, input.secret)]
  /\ Idle

\* the header set of sendWebhookRequest, lines 73-76, for a configuration
\* with the given headers and secret
ApplyBuildHeaders ==
  /\ input.fn = "build"
  /\ output = NoInput
  /\ output' = [fn |-> "build",
                headers |-> BuildHeaders([config.webhook EXCEPT
                                            !.headers = input.headers,
                                            !.secret = input.secret])]
  /\ Idle

PureNext == ApplyParse \/ ApplyTemplate \/ ApplyHeaders \/ ApplyBuildHeaders

PureSpec == PureInit /\ [][PureNext]_vars

----------------------------------------------------------------------------
(***************************************************************************)
(* Properties of the pure functions.                                       *)
(***************************************************************************)
Sentinels == {"/$/", "/*"}

\* C7: parseInvalidationPattern returns purgeAll = true exactly when the
\* pattern is the string "/$/" or the string "/*", and then urls is the
\* one-element list of the base URL followed by "/*".
C7_PurgeAllIffSentinel ==
  output.fn = "parse" =>
    /\ output.data.purgeAll <=> input.pattern \in Sentinels
    /\ output.data.purgeAll =>
         output.data.urls = <<config.ghostPublicUrl \o "/*">>

\* a sentinel has been interpreted as a full purge
C7_Witness ==
  /\ output.fn = "parse"
  /\ input.pattern \in Sentinels
  /\ output.data.purgeAll
  /\ Len(output.data.urls) = 1

\* the positions of the commas of a pattern
Commas(pattern) == {i \in 1..Len(pattern) : CharAt(pattern, i) = ","}

\* the position of the n-th comma; 0 before the first fragment and one past
\* the end after the last
CommaAt(pattern, n) ==
  IF n = 0 THEN 0
  ELSE IF n > Cardinality(Commas(pattern)) THEN Len(pattern) + 1
  ELSE CHOOSE c \in Commas(pattern) :
         Cardinality({d \in Commas(pattern) : d <= c}) = n

\* the i-th comma-separated fragment of a pattern
Fragment(pattern, i) ==
  SubSeq(pattern, CommaAt(pattern, i - 1) + 1, CommaAt(pattern, i) - 1)

\* f[a..b] is f without its leading and trailing white space
IsTrimmedAt(f, a, b) ==
  /\ a <= b + 1
  /\ \A i \in 1..(a - 1) : CharAt(f, i) \in WhiteSpace
  /\ \A i \in (b + 1)..Len(f) : CharAt(f, i) \in WhiteSpace
  /\ a <= b => /\ CharAt(f, a) \notin WhiteSpace
              /\ CharAt(f, b) \notin WhiteSpace

\* C8: for a pattern that is not a sentinel and has k comma-separated
\* fragments, parseInvalidationPattern returns purgeAll = false and k urls,
\* the i-th being the base URL followed by the trimmed i-th fragment (the
\* bare base URL for an empty fragment), and the pattern unchanged.
C8_OneUrlPerFragment ==
  (output.fn = "parse" /\ input.pattern \notin Sentinels) =>
    LET k == Cardinality(Commas(input.pattern)) + 1
        urls == output.data.urls
    IN  /\ output.data.purgeAll = FALSE
        /\ Len(urls) = k
        /\ \A i \in 1..k :
             /\ LET f == Fragment(input.pattern, i)
                IN  \E a \in 1..(Len(f) + 1), b \in 0..Len(f) :
                      /\ IsTrimmedAt(f, a, b)
                      /\ urls[i] = config.ghostPublicUrl \o SubSeq(f, a, b)
             /\ Fragment(input.pattern, i) = "" =>
                  urls[i] = config.ghostPublicUrl
        /\ output.data.pattern = input.pattern

\* a list of two fragments, one with white space around it and one empty,
\* has been interpreted
C8_Witness ==
  /\ output.fn = "parse"
  /\ input.pattern \notin Sentinels
  /\ Len(output.data.urls) = 2
  /\ \E i \in 1..2 :
       /\ Fragment(input.pattern, i) # ""
       /\ output.data.urls[i] # config.ghostPublicUrl \o Fragment(input.pattern, i)
  /\ \E i \in 1..2 :
       /\ Fragment(input.pattern, i) = ""
       /\ output.data.urls[i] = config.ghostPublicUrl

\* C9: the body rendered from a template with the four placeholders is valid
\* JSON whose urls, purgeAll, timestamp and pattern members decode to the
\* urls, purgeAll, timestamp and pattern of the intent, for every pattern.
C9_TemplateRoundTrip ==
  output.fn = "template" =>
    LET r == JSONParse(output.body)
    IN  /\ r.ok
        /\ r.v.kind = "object"
        /\ \A key \in {"urls", "purgeAll", "timestamp", "pattern"} :
             HasMember(r.v, key)
        /\ IsStringArray(Member(r.v, "urls"), output.data.urls)
        /\ IsBoolValue(Member(r.v, "purgeAll"), output.data.purgeAll)
        /\ IsStringValue(Member(r.v, "timestamp"), output.data.timestamp)
        /\ IsStringValue(Member(r.v, "pattern"), output.data.pattern)

\* str with every occurrence of needle replaced by text, text taken as it is
RECURSIVE SpliceFrom(_, _, _, _)
SpliceFrom(str, needle, text, from) ==
  LET i == IndexOfFrom(str, needle, from)
  IN  IF i = 0 THEN SubSeq(str, from, Len(str))
      ELSE SubSeq(str, from, i - 1) \o text
             \o SpliceFrom(str, needle, text, i + Len(needle))

\* C10: processHeaderTemplates keeps the header names and replaces every
\* occurrence of ${secret} in every value by the configured secret, by the
\* empty string when there is none, leaving the other text unchanged.
C10_SecretSubstituted ==
  output.fn = "headers" =>
    /\ Len(output.headers) = Len(input.headers)
    /\ \A i \in 1..Len(input.headers) :
         /\ output.headers[i][1] = input.headers[i][1]
         /\ output.headers[i][2] =
              SpliceFrom(input.headers[i][2], "${secret}",
                         IF input.secret.present THEN input.secret.value ELSE "", 1)

\* the four placeholders with the serialized values of an intent
Substitutions(data) ==
  <<<<"${urls}", StringifyArray(data.urls)>>,
    <<"${purgeAll}", StringifyBoolean(data.purgeAll)>>,
    <<"${timestamp}", StripQuotes(StringifyString(data.timestamp))>>,
    <<"${pattern}", StringifyString(data.pattern)>>>>

\* the placeholder that starts at position i of str, 0 when there is none
PlaceholderAt(str, subs, i) ==
  IF \E n \in 1..Len(subs) : StartsWithAt(str, subs[n][1], i)
    THEN CHOOSE n \in 1..Len(subs) : StartsWithAt(str, subs[n][1], i)
    ELSE 0

\* str from position from on, every placeholder replaced by its value in
\* one pass from left to right, the values taken as they are
RECURSIVE SpliceAll(_, _, _)
SpliceAll(str, subs, from) ==
  LET hits == {i \in from..Len(str) : PlaceholderAt(str, subs, i) # 0}
  IN  IF hits = {} THEN SubSeq(str, from, Len(str))
      ELSE LET i == CHOOSE h \in hits : \A j \in hits : h <= j
               n == PlaceholderAt(str, subs, i)
           IN  SubSeq(str, from, i - 1) \o subs[n][2]
                 \o SpliceAll(str, subs, i + Len(subs[n][1]))

\* C15: processTemplate is one substitution pass: the body is the template
\* with every occurrence of the four placeholders replaced at once by the
\* serialized values, the text of the values appearing as it is.
C15_SinglePass ==
  output.fn = "template" =>
    output.body =
      SpliceAll(config.webhook.bodyTemplate, Substitutions(output.data), 1)

\* header set sent carries name with value
Carries(sent, name, value) ==
  /\ \E j \in 1..Len(sent) : sent[j] = <<name, value>>
  /\ Cardinality({j \in 1..Len(sent) : sent[j][1] = name}) = 1

\* C18: the header set of a request carries Content-Type: application/json
\* unless the configured headers have a Content-Type of their own, whose
\* substituted value is then the one sent; without a configured header map
\* the set is that one header; every configured header is sent with the
\* value processHeaderTemplates gives it, and nothing else is sent.
C18_HeaderMerge ==
  output.fn = "build" =>
    LET sent == output.headers
        conf == IF input.headers.present THEN input.headers.value ELSE << >>
        sub == processHeaderTemplates(conf, input.secret)
        own == {i \in 1..Len(conf) : conf[i][1] = "Content-Type"}
    IN  /\ own = {} => Carries(sent, "Content-Type", "application/json")
        /\ \A i \in own : Carries(sent, "Content-Type", sub[i][2])
        /\ ~input.headers.present =>
             sent = <<<<"Content-Type", "application/json">>>>
        /\ \A i \in 1..Len(conf) : Carries(sent, conf[i][1], sub[i][2])
        /\ \A j \in 1..Len(sent) :
             \/ sent[j][1] = "Content-Type"
             \/ \E i \in 1..Len(conf) : conf[i][1] = sent[j][1]

\* a configured Content-Type of text/plain has replaced the default, next
\* to an Authorization header with the secret in it
C18_Witness ==
  /\ output.fn = "build"
  /\ input.headers.present
  /\ input.secret = Present("abc")
  /\ Carries(output.headers, "Content-Type", "text/plain")
  /\ Carries(output.headers, "Authorization", "Bearer abc")


====
